---------------------------- MODULE Spec2Model ----------------------------
(***************************************************************************)
(* VaultPrivacy: the vault parser (vaultprivacy/parser.py) and the cached  *)
(* ToS;DR rating client (vaultprivacy/api_client.py).                      *)
(*                                                                         *)
(* Strings are sequences of atoms.  In the rating client an atom is one    *)
(* character, so that Python's substring test `domain in url` is computed  *)
(* character by character.  In the parser an atom is either a delimiter    *)
(* ("://", "/", "@", ".", " ") or a whole host label: every string         *)
(* operation of normalize_domain acts at delimiter boundaries, except      *)
(* lower(), which is modelled by a map over the atoms.                     *)
(*                                                                         *)
(* JSON values are tagged records [k |-> kind, v |-> payload]; the tag `k` *)
(* is compared before the payload, so values of different kinds compare    *)
(* unequal.  A Python exception is the value Exc(name).                    *)
(***************************************************************************)
EXTENDS Integers, Sequences, FiniteSets, TLC

VARIABLE file   \* the cache file .cache_tosdr.json, shared by every run

----------------------------------------------------------------------------
(* JSON values and the Python operations the code applies to them *)

JNull == [k |-> "null", v |-> 0]
JNum(n) == [k |-> "num", v |-> n]
JStr(s) == [k |-> "str", v |-> s]
JArr(items) == [k |-> "arr", v |-> items]
JObj(fields) == [k |-> "obj", v |-> fields]
JBool(b) == [k |-> "bool", v |-> b]
Exc(name) == [k |-> "exc", v |-> name]

JTrue == JBool(TRUE)
JFalse == JBool(FALSE)

EmptyObj == JObj(<<>>)

IsExc(x) == x.k = "exc"

\* bool(x) of a JSON value
Truthy(j) ==
    CASE j.k = "null" -> FALSE
      [] j.k = "bool" -> j.v
      [] j.k = "num" -> j.v # 0
      [] j.k = "str" -> Len(j.v) > 0
      [] j.k = "arr" -> Len(j.v) > 0
      [] j.k = "obj" -> DOMAIN j.v # {}

\* dict.get(key, default)
Get(o, key, default) == IF key \in DOMAIN o.v THEN o.v[key] ELSE default

\* `needle in hay` on two str values: a contiguous run of atoms
Substring(needle, hay) ==
    \E i \in 0..(Len(hay) - Len(needle)) :
        \A j \in 1..Len(needle) : hay[i + j] = needle[j]

\* the Python expression `x in container` for a str x: JTrue, JFalse or a TypeError
PyIn(x, container) ==
    CASE container.k = "str" -> JBool(Substring(x, container.v))
      [] container.k = "arr" ->
             JBool(\E i \in 1..Len(container.v) : container.v[i] = JStr(x))
      [] container.k = "obj" -> JBool(\E key \in DOMAIN container.v : <<key>> = x)
      [] OTHER -> Exc("TypeError")

DigitVal(c) ==
    CASE c = "0" -> 0 [] c = "1" -> 1 [] c = "2" -> 2 [] c = "3" -> 3 [] c = "4" -> 4
      [] c = "5" -> 5 [] c = "6" -> 6 [] c = "7" -> 7 [] c = "8" -> 8 [] c = "9" -> 9

Digits == {"0", "1", "2", "3", "4", "5", "6", "7", "8", "9"}

RECURSIVE ParseInt(_)
ParseInt(s) == IF s = <<>> THEN 0
               ELSE 10 * ParseInt(SubSeq(s, 1, Len(s) - 1)) + DigitVal(s[Len(s)])

\* int(x)
ToInt(j) ==
    CASE j.k = "num" -> j
      [] j.k = "str" -> IF Len(j.v) > 0 /\ \A i \in 1..Len(j.v) : j.v[i] \in Digits
                        THEN JNum(ParseInt(j.v))
                        ELSE Exc("ValueError")
      [] OTHER -> Exc("TypeError")

----------------------------------------------------------------------------
(* api_client.py: _best_match *)

\* any(domain in url for url in urls): left to right, stopping at the first hit
RECURSIVE AnyIn(_, _, _)
AnyIn(domain, items, i) ==
    IF i > Len(items) THEN JFalse
    ELSE LET r == PyIn(domain, items[i])
         IN  IF r = JTrue THEN JTrue
             ELSE IF r = JFalse THEN AnyIn(domain, items, i + 1)
             ELSE r

AnyUrlContains(domain, urls) ==
    CASE urls.k = "arr" -> AnyIn(domain, urls.v, 1)
      [] urls.k = "str" ->
             JBool(\E i \in 1..Len(urls.v) : Substring(domain, <<urls.v[i]>>))
      [] urls.k = "obj" -> JBool(\E key \in DOMAIN urls.v : Substring(domain, <<key>>))
      [] OTHER -> Exc("TypeError")

\* the variant without the URL preference: always the first service
FirstMatchNoPreference(services, domain, i) == services[1]

\* the loop `for service in services` over a list, then the fallback services[0]
RECURSIVE FirstMatch(_, _, _)
FirstMatch(services, domain, i) ==
    IF i > Len(services) THEN services[1]
    ELSE IF services[i].k = "obj"
         THEN LET r == AnyUrlContains(domain, Get(services[i], "urls", JArr(<<>>)))
              IN  IF r = JTrue THEN services[i]
                  ELSE IF r = JFalse THEN FirstMatch(services, domain, i + 1)
                  ELSE r
         ELSE FirstMatch(services, domain, i + 1)

PickService(services, domain) ==
    IF ~Truthy(services) THEN JNull
    ELSE CASE services.k = "arr" -> FirstMatch(services.v, domain, 1)
           [] services.k = "str" -> JStr(<<services.v[1]>>)
           [] services.k = "obj" -> Exc("KeyError")
           [] OTHER -> Exc("TypeError")

_best_match(search_json, domain) ==
    IF ~Truthy(search_json) THEN JNull
    ELSE LET has == PyIn(<<"parameters">>, search_json)
         IN  IF has = JFalse THEN JNull
             ELSE IF has # JTrue THEN has
             ELSE IF search_json.k # "obj" THEN Exc("TypeError")
             ELSE IF search_json.v["parameters"].k # "obj" THEN Exc("AttributeError")
             ELSE PickService(Get(search_json.v["parameters"], "services", JArr(<<>>)),
                              domain)

----------------------------------------------------------------------------
(* api_client.py: lookup_tosdr, the cache file and the external service *)

Unknown == JStr(<<"Unknown">>)

\* list("ABCDE")
GradeLetters == <<JStr(<<"A">>), JStr(<<"B">>), JStr(<<"C">>), JStr(<<"D">>), JStr(<<"E">>)>>

\* the slip `grade in "ABCDE"`: a substring test instead of list membership
CoerceGradeSubstring(grade) ==
    IF grade.k = "str" /\ Substring(grade.v, <<"A", "B", "C", "D", "E">>)
    THEN grade ELSE Unknown

\* grade if grade in list("ABCDE") else "Unknown"
CoerceGrade(grade) ==
    IF \E i \in 1..Len(GradeLetters) : GradeLetters[i] = grade THEN grade ELSE Unknown

\* out = {"grade": "Unknown", "service_id": None, "name": domain}
DefaultOut(domain) ==
    JObj([grade |-> Unknown, service_id |-> JNull, name |-> JStr(domain)])

\* rating["letter"] if rating is a dict holding "letter", else "Unknown"
RatingLetter(rating) ==
    IF rating.k = "obj" /\ "letter" \in DOMAIN rating.v THEN rating.v["letter"] ELSE Unknown

\* service_id = service.get("id"); if service_id: service_id = int(service_id)
ServiceId(service) ==
    LET service_id == Get(service, "id", JNull)
    IN  IF Truthy(service_id) THEN ToInt(service_id) ELSE service_id

\* the record built from the selected service, or the exception that escapes
BuildRecord(service, domain) ==
    IF service.k # "obj" THEN Exc("AttributeError")
    ELSE LET sid == ServiceId(service)
         IN  IF IsExc(sid) THEN sid
             ELSE JObj([grade |-> CoerceGrade(RatingLetter(Get(service, "rating", EmptyObj))),
                        service_id |-> sid,
                        name |-> Get(service, "name", JStr(domain))])

\* the try block: the value of `out` after it, or the exception that is not a
\* requests.RequestException and so leaves lookup_tosdr
TryRequest(resp, domain) ==
    IF resp.k = "exc" THEN DefaultOut(domain)
    ELSE IF ~resp.v.ok THEN DefaultOut(domain)
    ELSE LET service == _best_match(resp.v.body, domain)
         IN  IF IsExc(service) THEN service
             ELSE IF ~Truthy(service) THEN DefaultOut(domain)
             ELSE BuildRecord(service, domain)

\* the cache file: absent, unparseable text, or the text of a JSON object
NoFile == [k |-> "missing", v |-> <<>>]
CorruptFile == [k |-> "corrupt", v |-> <<>>]

\* lines 15-21: the parsed file, or {} when it is absent or does not parse
_load_cache(f) == IF f.k = "json" THEN f.v ELSE <<>>

\* the variant that re-reads the file and adds to it, as a locked update would
SaveMerged(cache) ==
    LET onDisk == _load_cache(file)
    IN  [k |-> "json",
         v |-> [d \in DOMAIN cache \cup DOMAIN onDisk |->
                   IF d \in DOMAIN cache THEN cache[d] ELSE onDisk[d]]]

\* a lone surrogate code point: json.loads accepts its escape in a response
\* body, and UTF-8 cannot encode it
Surrogate == "U+D800"

\* every string of the JSON value j can be encoded as UTF-8
RECURSIVE Encodable(_)
Encodable(j) ==
    CASE j.k = "str" -> \A i \in 1..Len(j.v) : j.v[i] # Surrogate
      [] j.k = "arr" -> \A i \in 1..Len(j.v) : Encodable(j.v[i])
      [] j.k = "obj" -> \A key \in DOMAIN j.v : Encodable(j.v[key])
      [] OTHER -> TRUE

\* the text json.dumps(cache, ensure_ascii=False) can be encoded as UTF-8
CanEncode(cache) ==
    \A d \in DOMAIN cache :
        /\ \A i \in 1..Len(d) : d[i] # Surrogate
        /\ Encodable(cache[d])

\* lines 23-24: write_text opens the file for writing, which empties it, and
\* then writes the text of `cache`; when the text cannot be encoded the write
\* raises UnicodeEncodeError and the file stays empty, which does not parse
_save_cache(cache) == IF CanEncode(cache) THEN [k |-> "json", v |-> cache] ELSE CorruptFile

\* the variant that does not cache a failed lookup
PutUnlessUnknown(cache, domain, rec) ==
    IF rec = DefaultOut(domain) THEN cache
    ELSE [d \in DOMAIN cache \cup {domain} |-> IF d = domain THEN rec ELSE cache[d]]

\* cache[domain] = out
Put(cache, domain, rec) ==
    [d \in DOMAIN cache \cup {domain} |-> IF d = domain THEN rec ELSE cache[d]]

\* the variant that answers a cache hit with a fresh default record
CachedRecordIgnored(cache, domain) == DefaultOut(domain)

\* line 57: return cache[domain]
CachedRecord(cache, domain) == cache[domain]

----------------------------------------------------------------------------
(* parser.py: normalize_domain *)

\* MULTIPART_TLDS
MULTIPART_TLDS ==
    {<<"co", ".", "uk">>, <<"org", ".", "uk">>, <<"ac", ".", "uk">>, <<"gov", ".", "uk">>,
     <<"com", ".", "au">>, <<"co", ".", "jp">>, <<"com", ".", "br">>}

Has(s, a) == \E i \in 1..Len(s) : s[i] = a

\* the least index of atom a in s (a occurs in s)
IndexOf(s, a) == CHOOSE i \in 1..Len(s) : s[i] = a /\ \A j \in 1..(i - 1) : s[j] # a

\* the greatest index of atom a in s (a occurs in s)
LastIndexOf(s, a) ==
    CHOOSE i \in 1..Len(s) : s[i] = a /\ \A j \in (i + 1)..Len(s) : s[j] # a

\* str.strip()
RECURSIVE Strip(_)
Strip(s) ==
    IF s = <<>> THEN s
    ELSE IF s[1] = " " THEN Strip(Tail(s))
    ELSE IF s[Len(s)] = " " THEN Strip(SubSeq(s, 1, Len(s) - 1))
    ELSE s

LowerAtom(a) ==
    CASE a = "EX" -> "ex"
      [] a = "WWW" -> "www"
      [] OTHER -> a

\* str.lower()
Lower(s) == [i \in 1..Len(s) |-> LowerAtom(s[i])]

Delimiters == {"://", "/", "@", " "}

\* urlparse(s).hostname or "": the scheme is what precedes the first ":" when it
\* is made of scheme characters; the netloc runs from "//" to the first "/";
\* the host is what follows the last "@" of the netloc
Hostname(s) ==
    IF ~Has(s, "://") THEN <<>>
    ELSE LET i == IndexOf(s, "://")
             scheme == SubSeq(s, 1, i - 1)
             rest == SubSeq(s, i + 1, Len(s))
             netloc == IF Has(rest, "/") THEN SubSeq(rest, 1, IndexOf(rest, "/") - 1)
                       ELSE rest
             host == IF Has(netloc, "@")
                     THEN SubSeq(netloc, LastIndexOf(netloc, "@") + 1, Len(netloc))
                     ELSE netloc
         IN  IF i > 1 /\ \A j \in 1..Len(scheme) : scheme[j] \notin Delimiters
             THEN Lower(host)
             ELSE <<>>

\* re.sub(r"^(www\.|m\.)", "", host)
StripPrefix(host) ==
    IF Len(host) >= 2 /\ host[1] \in {"www", "m"} /\ host[2] = "."
    THEN SubSeq(host, 3, Len(host))
    ELSE host

\* host.split("."): the labels, each a string
RECURSIVE Split(_)
Split(host) ==
    IF ~Has(host, ".") THEN <<host>>
    ELSE LET i == IndexOf(host, ".")
         IN  <<SubSeq(host, 1, i - 1)>> \o Split(SubSeq(host, i + 1, Len(host)))

\* ".".join(parts)
RECURSIVE Join(_)
Join(parts) ==
    IF parts = <<>> THEN <<>>
    ELSE IF Len(parts) = 1 THEN parts[1]
    ELSE parts[1] \o <<".">> \o Join(Tail(parts))

\* parts[-n:]
LastN(parts, n) ==
    IF Len(parts) <= n THEN parts ELSE SubSeq(parts, Len(parts) - n + 1, Len(parts))

\* the variant without the suffix table: always the last two labels
RootOfLastTwo(host) ==
    LET parts == Split(host)
    IN  IF Len(parts) < 2 THEN host ELSE Join(LastN(parts, 2))

\* lines 26-42, from the host on
RootOf(host) ==
    LET parts == Split(host)
        last_two == Join(LastN(parts, 2))
        last_three == IF Len(parts) >= 3 THEN Join(LastN(parts, 3)) ELSE <<>>
    IN  IF Len(parts) < 2 THEN host
        ELSE IF last_two \in MULTIPART_TLDS /\ Len(parts) >= 3 THEN Join(LastN(parts, 3))
        ELSE IF last_three \in MULTIPART_TLDS /\ Len(parts) >= 4 THEN Join(LastN(parts, 4))
        ELSE last_two

\* normalize_domain on a string
NormalizeStr(raw) ==
    LET s == Lower(Strip(raw))
    IN  IF Has(s, "@") /\ ~Has(s, "://") THEN <<>>
        ELSE LET host == Hostname(IF Has(s, "://") THEN s ELSE <<"https", "://">> \o s)
             IN  IF host = <<>> THEN <<>> ELSE RootOf(StripPrefix(host))

\* normalize_domain on whatever value the vault holds under "uri"
normalize_domain(raw) ==
    IF ~Truthy(raw) THEN JStr(<<>>)
    ELSE IF raw.k # "str" THEN Exc("AttributeError")
    ELSE JStr(NormalizeStr(raw.v))

----------------------------------------------------------------------------
(* parser.py: extract_domains *)

\* the locals `seen` and `ordered`
Acc(seen, ordered) == [k |-> "acc", seen |-> seen, ordered |-> ordered]

NoDomains == Acc({}, <<>>)

\* the variant that forgets the `dom not in seen` test
RECURSIVE ScanUrisNoSeen(_, _, _)
ScanUrisNoSeen(uris, i, acc) ==
    IF i > Len(uris) THEN acc
    ELSE LET u == IF Truthy(uris[i]) THEN uris[i] ELSE EmptyObj
         IN  IF u.k # "obj" THEN Exc("AttributeError")
             ELSE LET dom == normalize_domain(Get(u, "uri", JStr(<<>>)))
                  IN  IF IsExc(dom) THEN dom
                      ELSE IF Truthy(dom)
                      THEN ScanUrisNoSeen(uris, i + 1,
                                          Acc(acc.seen \cup {dom.v}, Append(acc.ordered, dom.v)))
                      ELSE ScanUrisNoSeen(uris, i + 1, acc)

\* the inner loop `for u in uris` from index i on; acc holds `seen` and `ordered`
RECURSIVE ScanUris(_, _, _)
ScanUris(uris, i, acc) ==
    IF i > Len(uris) THEN acc
    ELSE LET u == IF Truthy(uris[i]) THEN uris[i] ELSE EmptyObj
         IN  IF u.k # "obj" THEN Exc("AttributeError")
             ELSE LET dom == normalize_domain(Get(u, "uri", JStr(<<>>)))
                  IN  IF IsExc(dom) THEN dom
                      ELSE IF Truthy(dom) /\ dom.v \notin acc.seen
                      THEN ScanUris(uris, i + 1,
                                    Acc(acc.seen \cup {dom.v}, Append(acc.ordered, dom.v)))
                      ELSE ScanUris(uris, i + 1, acc)

\* the body of `for it in items` for one item
ScanItem(it, acc) ==
    IF it.k # "obj" THEN Exc("AttributeError")
    ELSE LET got == Get(it, "login", EmptyObj)
             login == IF Truthy(got) THEN got ELSE EmptyObj
         IN  IF login.k # "obj" THEN Exc("AttributeError")
             ELSE LET uris == IF Truthy(Get(login, "uris", JNull))
                              THEN Get(login, "uris", JNull) ELSE JArr(<<>>)
                  IN  CASE uris.k = "arr" -> ScanUris(uris.v, 1, acc)
                        [] uris.k \in {"str", "obj"} -> Exc("AttributeError")
                        [] OTHER -> Exc("TypeError")

\* the outer loop `for it in items` from index i on
RECURSIVE ScanItems(_, _, _)
ScanItems(items, i, acc) ==
    IF i > Len(items) THEN acc
    ELSE LET next == ScanItem(items[i], acc)
         IN  IF IsExc(next) THEN next ELSE ScanItems(items, i + 1, next)

\* a Python list of strings
PyList(strings) == [k |-> "list", v |-> strings]

\* extract_domains on the parsed export: the list `ordered`, or the exception
extract_domains(data) ==
    IF data.k # "obj" THEN Exc("AttributeError")
    ELSE LET items == Get(data, "items", JArr(<<>>))
         IN  CASE items.k = "arr" ->
                    LET acc == ScanItems(items.v, 1, NoDomains)
                    IN  IF IsExc(acc) THEN acc ELSE PyList(acc.ordered)
               [] items.k \in {"str", "obj"} ->
                    IF Truthy(items) THEN Exc("AttributeError") ELSE PyList(<<>>)
               [] OTHER -> Exc("TypeError")

----------------------------------------------------------------------------
(* Bounds and the inputs drawn from them *)

MaxCalls == 3
MaxServices == 2

Procs == {1, 2}

\* "t.co" is a substring of "git.co"
DomT == <<"t", ".", "c", "o">>
DomGit == <<"g", "i", "t", ".", "c", "o">>
UrlX == <<"x", ".", "i", "o">>
Domains == {DomT, DomGit}

Letter(c) == JObj([letter |-> JStr(c)])

SvcT == JObj([name |-> JStr(<<"T">>), urls |-> JArr(<<JStr(DomT)>>),
              rating |-> Letter(<<"B">>), id |-> JNum(7)])
SvcGit == JObj([name |-> JStr(<<"G">>), urls |-> JArr(<<JStr(UrlX), JStr(DomGit)>>),
                rating |-> Letter(<<"e">>), id |-> JStr(<<"1", "2">>)])
SvcX == JObj([urls |-> JArr(<<JStr(UrlX)>>), rating |-> Letter(<<"A", "B">>)])
SvcBadId == JObj([name |-> JStr(<<"I">>), urls |-> JArr(<<JStr(UrlX)>>),
                  id |-> JStr(<<"x", "1">>)])
SvcBadUrl == JObj([name |-> JStr(<<"U">>), urls |-> JArr(<<JNum(5), JStr(DomT)>>),
                   rating |-> Letter(<<"A">>)])
SvcRatingStr == JObj([name |-> JStr(<<"R">>), rating |-> JStr(<<"A">>), id |-> JNum(0)])
SvcStr == JStr(<<"s">>)
SvcSurrogate == JObj([name |-> JStr(<<"S", Surrogate>>), urls |-> JArr(<<JStr(DomGit)>>),
                      rating |-> Letter(<<"A">>), id |-> JNum(3)])

ServicePool == {SvcT, SvcGit, SvcX, SvcBadId, SvcBadUrl, SvcRatingStr, SvcStr, SvcSurrogate}

RECURSIVE SeqsUpTo(_, _)
SeqsUpTo(S, n) ==
    IF n = 0 THEN {<<>>}
    ELSE LET shorter == SeqsUpTo(S, n - 1)
         IN  shorter \cup {Append(q, x) : q \in shorter, x \in S}

Bodies ==
    {JObj([parameters |-> JObj([services |-> JArr(q)])]) : q \in SeqsUpTo(ServicePool, MaxServices)}
    \cup {JNull, EmptyObj, JObj([parameters |-> JObj(<<>>)]),
          JObj([parameters |-> JArr(<<>>)]), JObj([parameters |-> JNull])}

\* what requests.get does: raise a RequestException, or hand back a response
Outcomes ==
    {Exc("ConnectionError"), Exc("Timeout")}
    \cup {[k |-> "http", v |-> [ok |-> FALSE, body |-> JNull]]}
    \cup {[k |-> "http", v |-> [ok |-> TRUE, body |-> b]] : b \in Bodies}

NoResp == [k |-> "none", v |-> 0]

MaxLabels == 4
MaxEntries == 3

HostLabels == {"www", "m", "co", "uk", "ex", "EX"}

\* the labels joined by dots
HostOf(labels) == Join([i \in 1..Len(labels) |-> <<labels[i]>>])

\* the hosts of at most n labels
Hosts(n) == {HostOf(q) : q \in SeqsUpTo(HostLabels, n) \ {<<>>}}

\* a host as it may be stored in a vault entry
Wrappings(host) ==
    {host,
     <<"http", "://">> \o host \o <<"/", "p">>,
     <<"http", "://", "u", "@">> \o host,
     <<"u", "@">> \o host,
     <<" ">> \o host \o <<" ">>}

\* the raw strings handed to normalize_domain: hosts of at most n labels
RawInputs(n) == {<<>>} \cup UNION {Wrappings(h) : h \in Hosts(n)}

Uri(raw) == JObj([uri |-> raw])

\* login.uris[] entries: four well-formed ones (the first two name the same
\* domain, the fourth is an e-mail address) and the malformed ones
UriEntryPool ==
    {Uri(JStr(<<"https", "://", "www", ".", "ex", ".", "co", ".", "uk", "/", "p">>)),
     Uri(JStr(<<" ", "EX", ".", "co", ".", "uk", " ">>)),
     Uri(JStr(<<"m", ".", "ex", ".", "uk">>)),
     Uri(JStr(<<"u", "@", "ex", ".", "uk">>)),
     Uri(JStr(<<>>)), Uri(JNull), EmptyObj, JNull,
     Uri(JNum(5)), JStr(<<"s">>)}

Item(uris) == JObj([login |-> JObj([uris |-> JArr(uris)])])

\* items that carry no URI list, and an item that is no object
OddItems ==
    {EmptyObj, JObj([login |-> JNull]), JObj([login |-> EmptyObj]),
     JObj([login |-> JObj([uris |-> JNull])]), JStr(<<"s">>)}

\* an export of two items holding the entries q: the first `cut` entries in
\* the first item, the others in the second, with the items `between` in the middle
Vault(q, cut, between) ==
    JObj([encrypted |-> JFalse, folders |-> JArr(<<>>),
          items |-> JArr(<<Item(SubSeq(q, 1, cut))>> \o between
                         \o <<Item(SubSeq(q, cut + 1, Len(q)))>>)])

\* the exports handed to extract_domains: at most n URI entries
Vaults(n) ==
    {JObj([items |-> JArr(<<>>)]), EmptyObj}
    \cup {Vault(qc[1], qc[2], b) :
              qc \in {x \in SeqsUpTo(UriEntryPool, n) \X (0..n) :
                         x[2] <= Len(x[1])},
              b \in {<<>>} \cup {<<o>> : o \in OddItems}}

----------------------------------------------------------------------------
(* The rest of the state: each process's position in lookup_tosdr, and the *)
(* parser's argument and result                                            *)

VARIABLES
    pc,         \* per process: "idle", "miss", "tosave", "sleep", "done" or "raised"
    dom,        \* per process: the argument `domain`
    cache,      \* per process: the local `cache` dict
    resp,       \* per process: what requests.get did in this call
    matched,    \* per process: what _best_match returned in this call
    out,        \* per process: the local `out`
    ret,        \* per process: the value returned, or the exception raised
    effects,    \* per process: what this call did (request, write, sleep)
    fileAtCall, \* per process: the cache file as it was when this call began
    netCalls,   \* per domain: the number of requests sent to the search endpoint
    calls,      \* the number of calls of lookup_tosdr begun
    raw,        \* the argument of normalize_domain
    once,       \* normalize_domain(raw)
    twice,      \* normalize_domain(once)
    nstage,     \* "off", "input", "once" or "twice"
    vault,      \* the parsed export handed to extract_domains
    ordered,    \* what extract_domains returned or raised
    xstage      \* "off", "input" or "done"

----------------------------------------------------------------------------
(* The operations of lookup_tosdr *)

lookupVars == <<file, pc, dom, cache, resp, matched, out, ret, effects, fileAtCall,
                netCalls, calls>>

NoEffects == [requested |-> FALSE, wrote |-> FALSE, slept |-> FALSE]

InCall(p) == pc[p] \in {"miss", "tosave", "sleep"}

LookupInit ==
    /\ file \in {NoFile, CorruptFile}
    /\ pc = [p \in Procs |-> "idle"]
    /\ dom = [p \in Procs |-> DomT]
    /\ cache = [p \in Procs |-> <<>>]
    /\ resp = [p \in Procs |-> NoResp]
    /\ matched = [p \in Procs |-> JNull]
    /\ out = [p \in Procs |-> JNull]
    /\ ret = [p \in Procs |-> JNull]
    /\ effects = [p \in Procs |-> NoEffects]
    /\ fileAtCall = [p \in Procs |-> NoFile]
    /\ netCalls = [d \in Domains |-> 0]
    /\ calls = 0

\* lines 55-59: load the cache; return the cached record, or set the default
Begin(p, d) ==
    /\ ~InCall(p)
    /\ calls < MaxCalls
    /\ calls' = calls + 1
    /\ dom' = [dom EXCEPT ![p] = d]
    /\ fileAtCall' = [fileAtCall EXCEPT ![p] = file]
    /\ resp' = [resp EXCEPT ![p] = NoResp]
    /\ matched' = [matched EXCEPT ![p] = JNull]
    /\ effects' = [effects EXCEPT ![p] = NoEffects]
    /\ LET loaded == _load_cache(file)
       IN  /\ cache' = [cache EXCEPT ![p] = loaded]
           /\ IF d \in DOMAIN loaded
              THEN /\ pc' = [pc EXCEPT ![p] = "done"]
                   /\ ret' = [ret EXCEPT ![p] = CachedRecord(loaded, d)]
                   /\ out' = [out EXCEPT ![p] = JNull]
              ELSE /\ pc' = [pc EXCEPT ![p] = "miss"]
                   /\ ret' = [ret EXCEPT ![p] = JNull]
                   /\ out' = [out EXCEPT ![p] = DefaultOut(d)]
    /\ UNCHANGED <<file, netCalls>>

\* lines 61-83: the request and the construction of `out`
Request(p, outcomes) ==
    /\ pc[p] = "miss"
    /\ \E o \in outcomes :
          LET r == TryRequest(o, dom[p])
          IN  /\ resp' = [resp EXCEPT ![p] = o]
              /\ matched' = [matched EXCEPT ![p] =
                     IF o.k = "http" /\ o.v.ok THEN _best_match(o.v.body, dom[p]) ELSE JNull]
              /\ IF IsExc(r)
                 THEN /\ pc' = [pc EXCEPT ![p] = "raised"]
                      /\ ret' = [ret EXCEPT ![p] = r]
                      /\ out' = out
                 ELSE /\ pc' = [pc EXCEPT ![p] = "tosave"]
                      /\ out' = [out EXCEPT ![p] = r]
                      /\ ret' = ret
    /\ netCalls' = [netCalls EXCEPT ![dom[p]] = @ + 1]
    /\ effects' = [effects EXCEPT ![p].requested = TRUE]
    /\ UNCHANGED <<file, dom, cache, fileAtCall, calls>>

\* lines 86-87: cache[domain] = out; _save_cache(cache)
Save(p) ==
    /\ pc[p] = "tosave"
    /\ cache' = [cache EXCEPT ![p] = Put(cache[p], dom[p], out[p])]
    /\ file' = _save_cache(cache'[p])
    /\ effects' = [effects EXCEPT ![p].wrote = TRUE]
    /\ IF CanEncode(cache'[p])
       THEN /\ pc' = [pc EXCEPT ![p] = "sleep"]
            /\ ret' = ret
       ELSE /\ pc' = [pc EXCEPT ![p] = "raised"]
            /\ ret' = [ret EXCEPT ![p] = Exc("UnicodeEncodeError")]
    /\ UNCHANGED <<dom, resp, matched, out, fileAtCall, netCalls, calls>>

\* lines 88-89: time.sleep(SLEEP_BETWEEN); return out
Return(p) ==
    /\ pc[p] = "sleep"
    /\ effects' = [effects EXCEPT ![p].slept = TRUE]
    /\ ret' = [ret EXCEPT ![p] = out[p]]
    /\ pc' = [pc EXCEPT ![p] = "done"]
    /\ UNCHANGED <<file, dom, cache, resp, matched, out, fileAtCall, netCalls, calls>>

parserVars == <<raw, once, twice, nstage, vault, ordered, xstage>>

vars == <<lookupVars, parserVars>>

NormalizeOff == raw = JNull /\ once = JNull /\ twice = JNull /\ nstage = "off"

ExtractOff == vault = JNull /\ ordered = JNull /\ xstage = "off"

LookupOff == LookupInit /\ file = NoFile

Init == LookupInit /\ NormalizeOff /\ ExtractOff

\* one process, one call after another: the calls of one run, and of later runs
Next ==
    \/ \E d \in Domains : Begin(1, d) /\ UNCHANGED parserVars
    \/ Request(1, Outcomes) /\ UNCHANGED parserVars
    \/ Save(1) /\ UNCHANGED parserVars
    \/ Return(1) /\ UNCHANGED parserVars

Spec == Init /\ [][Next]_vars

\* the responses drawn when two runs are interleaved
RaceOutcomes ==
    {Exc("Timeout"),
     [k |-> "http", v |-> [ok |-> TRUE,
                           body |-> JObj([parameters |-> JObj([services |-> JArr(<<SvcGit, SvcT>>)])])]]}

\* two runs against the same cache path at once
NextRace ==
    \/ \E p \in Procs, d \in Domains : Begin(p, d) /\ UNCHANGED parserVars
    \/ \E p \in Procs : Request(p, RaceOutcomes) /\ UNCHANGED parserVars
    \/ \E p \in Procs : Save(p) /\ UNCHANGED parserVars
    \/ \E p \in Procs : Return(p) /\ UNCHANGED parserVars

SpecRace == Init /\ [][NextRace]_vars

----------------------------------------------------------------------------
(* Properties of lookup_tosdr, checked under Spec *)

Returned(p) == pc[p] = "done"

\* this call found its domain in the cache file
CacheHit(p) == fileAtCall[p].k = "json" /\ dom[p] \in DOMAIN fileAtCall[p].v

\* the record {grade: "Unknown", service_id: null, name: domain}
UnknownRecord(domain) ==
    [k |-> "obj",
     v |-> [grade |-> [k |-> "str", v |-> <<"Unknown">>],
            service_id |-> [k |-> "null", v |-> 0],
            name |-> [k |-> "str", v |-> domain]]]

\* C1: whatever the external request does, lookup_tosdr returns a record and
\* raises no exception to its caller.
C1_LookupNeverRaises == \A p \in Procs : pc[p] # "raised"

\* C2: a call for a domain that is a key of the cache file sends no request,
\* does not sleep, leaves the cache file as it was, and returns exactly the
\* record stored under that key.
C2_CacheHitReturnsStored ==
    \A p \in Procs :
        (Returned(p) /\ CacheHit(p)) =>
            /\ ~effects[p].requested
            /\ ~effects[p].slept
            /\ ~effects[p].wrote
            /\ file = fileAtCall[p]
            /\ ret[p] = fileAtCall[p].v[dom[p]]

\* a cache hit that returned a record a service was found for
C2_Witness ==
    \E p \in Procs :
        /\ Returned(p) /\ CacheHit(p)
        /\ ret[p] # UnknownRecord(dom[p])

\* C3: over any sequence of calls sharing one cache file, at most one request
\* is ever sent per domain.
C3_AtMostOneRequestPerDomain == \A d \in Domains : netCalls[d] <= 1

\* C3, the part that holds: while a record for a domain is in the cache file,
\* no step sends a request for that domain.
C3_NoRequeryOnceCached ==
    [][\A d \in Domains :
          (file.k = "json" /\ d \in DOMAIN file.v) => netCalls'[d] = netCalls[d]]_vars

\* the request of this call failed, or the response held no candidate
FailedOrNoCandidate(p) ==
    \/ resp[p].k = "exc"
    \/ resp[p].k = "http" /\ ~resp[p].v.ok
    \/ resp[p].k = "http" /\ resp[p].v.ok /\ matched[p] = JNull

\* C4: on a cache miss where the request fails (network error, timeout,
\* non-success status) or yields no candidate, lookup_tosdr does not raise, the
\* record {grade: "Unknown", service_id: null, name: domain} is in the cache
\* file under the domain before it returns, and that record is what it returns.
C4_FailureYieldsUnknownAndIsCached ==
    \A p \in Procs :
        (effects[p].requested /\ FailedOrNoCandidate(p)) =>
            /\ pc[p] # "raised"
            /\ pc[p] \in {"sleep", "done"} =>
                   /\ file.k = "json"
                   /\ dom[p] \in DOMAIN file.v
                   /\ file.v[dom[p]] = UnknownRecord(dom[p])
            /\ Returned(p) => ret[p] = UnknownRecord(dom[p])

\* a miss whose request raised a RequestException has returned
C4_Witness ==
    \E p \in Procs :
        /\ Returned(p) /\ effects[p].requested
        /\ resp[p].k = "exc"

ValidGrades ==
    {[k |-> "str", v |-> <<c>>] : c \in {"A", "B", "C", "D", "E", "Unknown"}}

\* C9: every record lookup_tosdr constructs on a cache miss, and so every
\* record it returns or writes to the cache file, has a grade in
\* {A, B, C, D, E, Unknown}.
C9_GradeIsValid ==
    /\ \A p \in Procs :
          (effects[p].requested /\ pc[p] \in {"tosave", "sleep", "done"}) =>
              out[p].v.grade \in ValidGrades
    /\ \A p \in Procs : Returned(p) => ret[p].v.grade \in ValidGrades
    /\ \A d \in DOMAIN _load_cache(file) : file.v[d].v.grade \in ValidGrades

\* the selected service carried the two-letter rating "AB" and the record
\* returned has the grade Unknown
C9_Witness ==
    \E p \in Procs :
        /\ Returned(p) /\ effects[p].requested
        /\ matched[p] = SvcX
        /\ ret[p].v.grade = [k |-> "str", v |-> <<"Unknown">>]

\* the services of a response, when it carries a list of them
ServicesOf(body) ==
    IF /\ body.k = "obj" /\ "parameters" \in DOMAIN body.v
       /\ body.v["parameters"].k = "obj"
       /\ "services" \in DOMAIN body.v["parameters"].v
       /\ body.v["parameters"].v["services"].k = "arr"
    THEN body.v["parameters"].v["services"].v
    ELSE <<>>

\* one of the service's listed URL strings contains the domain
Qualifies(service, domain) ==
    /\ service.k = "obj" /\ "urls" \in DOMAIN service.v
    /\ service.v["urls"].k = "arr"
    /\ \E j \in 1..Len(service.v["urls"].v) :
          /\ service.v["urls"].v[j].k = "str"
          /\ Substring(domain, service.v["urls"].v[j].v)

\* every service is an object whose "urls", if present, is a list of strings
ServicesWellFormed(services) ==
    \A i \in 1..Len(services) :
        /\ services[i].k = "obj"
        /\ "urls" \in DOMAIN services[i].v =>
               /\ services[i].v["urls"].k = "arr"
               /\ \A j \in 1..Len(services[i].v["urls"].v) :
                      services[i].v["urls"].v[j].k = "str"

\* the response is null, or an object whose "parameters", if present, is an
\* object whose "services", if present, is a well-formed list
BodyWellFormed(body) ==
    \/ body.k = "null"
    \/ /\ body.k = "obj"
       /\ "parameters" \in DOMAIN body.v =>
              /\ body.v["parameters"].k = "obj"
              /\ "services" \in DOMAIN body.v["parameters"].v =>
                     /\ body.v["parameters"].v["services"].k = "arr"
                     /\ ServicesWellFormed(body.v["parameters"].v["services"].v)

GotResponse(p) == resp[p].k = "http" /\ resp[p].v.ok

KeysOf(f) == IF f.k = "json" THEN DOMAIN f.v ELSE {}

\* C12: in a single process the cache file only grows: no step of a lookup of
\* domain d removes a key of the file or changes the record stored under a
\* key, d included, and the only key a step adds is d.
C12_CacheOnlyGrows ==
    [][/\ \A key \in KeysOf(file) :
              /\ key \in KeysOf(file')
              /\ file'.v[key] = file.v[key]
       /\ KeysOf(file') \ KeysOf(file) \subseteq {dom[1]}
       /\ file.k = "json" => file'.k = "json"]_vars

----------------------------------------------------------------------------
(* Two runs against one cache file, checked under SpecRace *)

\* p and q each ran a cache-miss call to its end, for different domains, and
\* each loaded the file before the other saved: neither local cache holds the
\* other's domain
RacedMisses(p, q) ==
    /\ p # q /\ dom[p] # dom[q]
    /\ Returned(p) /\ Returned(q)
    /\ effects[p].wrote /\ effects[q].wrote
    /\ dom[q] \notin DOMAIN cache[p]
    /\ dom[p] \notin DOMAIN cache[q]

\* C8: when two processes each run a cache-miss call for different domains
\* and both load the file before either saves, the later whole-file write
\* wins: the file holds exactly one of the two new records, and is the local
\* cache of one of the two.
C8_LastWriterWins ==
    \A p, q \in Procs :
        RacedMisses(p, q) =>
            /\ file.k = "json"
            /\ (dom[p] \in DOMAIN file.v) # (dom[q] \in DOMAIN file.v)
            /\ file.v = cache[p] \/ file.v = cache[q]

\* both calls have returned and the record of process 1 is gone from the file
C8_Witness ==
    /\ RacedMisses(1, 2)
    /\ dom[1] \notin DOMAIN file.v
    /\ dom[2] \in DOMAIN file.v
    /\ ret[1] # UnknownRecord(dom[1])

----------------------------------------------------------------------------
(* normalize_domain applied to a raw string, and again to its own result *)

InitNormalize ==
    /\ LookupOff /\ ExtractOff
    /\ raw \in {JStr(x) : x \in RawInputs(MaxLabels)}
    /\ once = JNull /\ twice = JNull /\ nstage = "input"

Normalize ==
    /\ nstage = "input"
    /\ once' = normalize_domain(raw)
    /\ nstage' = "once"
    /\ UNCHANGED <<raw, twice, vault, ordered, xstage, lookupVars>>

Renormalize ==
    /\ nstage = "once"
    /\ twice' = normalize_domain(once)
    /\ nstage' = "twice"
    /\ UNCHANGED <<raw, once, vault, ordered, xstage, lookupVars>>

NextNormalize == Normalize \/ Renormalize

SpecNormalize == InitNormalize /\ [][NextNormalize]_vars

\* C5: normalize_domain is idempotent: normalizing its own result changes
\* nothing.
C5_NormalizeIdempotent == nstage = "twice" => twice = once

\* the host normalize_domain parses out of the string s, before the prefix
\* strip; empty when it returns early
ParsedHost(s) ==
    LET t == Lower(Strip(s))
    IN  IF Has(t, "@") /\ ~Has(t, "://") THEN <<>>
        ELSE Hostname(IF Has(t, "://") THEN t ELSE <<"https", "://">> \o t)

\* the positions of the dots of a host
Dots(host) == {i \in 1..Len(host) : host[i] = "."}

LabelCount(host) == Cardinality(Dots(host)) + 1

\* the last n labels with the dots between them: what follows the n-th dot
\* from the end, or the whole host when it has at most n labels
LastLabels(host, n) ==
    IF LabelCount(host) <= n THEN host
    ELSE LET d == CHOOSE i \in Dots(host) :
                      Cardinality({j \in Dots(host) : j > i}) = n - 1
         IN  SubSeq(host, d + 1, Len(host))

\* the result C11 states for a host whose prefix has been stripped
StatedRoot(host) ==
    IF LastLabels(host, 2) \in MULTIPART_TLDS /\ LabelCount(host) >= 3
    THEN LastLabels(host, 3)
    ELSE LastLabels(host, 2)

\* s was handed to normalize_domain and r came back
RootAsStated(s, r) ==
    LET host == StripPrefix(ParsedHost(s))
    IN  (host # <<>> /\ LabelCount(host) >= 2) => r = JStr(StatedRoot(host))

\* C11: for every host that has at least two dot-separated labels once the
\* leading www./m. prefix is stripped, normalize_domain returns the last three
\* labels joined by dots when the last two labels are an entry of
\* MULTIPART_TLDS and the host has at least three labels, and otherwise
\* exactly the last two labels joined by dots.
C11_LastTwoOrThreeLabels ==
    /\ nstage \in {"once", "twice"} => RootAsStated(raw.v, once)
    /\ nstage = "twice" => RootAsStated(once.v, twice)

\* a four-label host ending in co.uk gave its last three labels, and a second
\* pass over that result gave it back
C11_Witness ==
    /\ nstage = "twice"
    /\ LabelCount(StripPrefix(ParsedHost(raw.v))) = 4
    /\ once = JStr(<<"ex", ".", "co", ".", "uk">>)
    /\ twice = once

\* a host of three labels outside the suffix table gave its last two labels
C11_WitnessLastTwo ==
    /\ nstage = "once"
    /\ LabelCount(StripPrefix(ParsedHost(raw.v))) = 3
    /\ LastLabels(StripPrefix(ParsedHost(raw.v)), 2) \notin MULTIPART_TLDS
    /\ once = JStr(<<"ex", ".", "uk">>)


----------------------------------------------------------------------------
(* extract_domains applied to a parsed export *)

InitExtract ==
    /\ LookupOff /\ NormalizeOff
    /\ vault \in Vaults(MaxEntries)
    /\ ordered = JNull /\ xstage = "input"

Extract ==
    /\ xstage = "input"
    /\ ordered' = extract_domains(vault)
    /\ xstage' = "done"
    /\ UNCHANGED <<vault, raw, once, twice, nstage, lookupVars>>

NextExtract == Extract

SpecExtract == InitExtract /\ [][NextExtract]_vars

\* the URI entries of an item that carries a list of them
UrisOf(it) ==
    IF /\ it.k = "obj" /\ "login" \in DOMAIN it.v
       /\ it.v["login"].k = "obj" /\ "uris" \in DOMAIN it.v["login"].v
       /\ it.v["login"].v["uris"].k = "arr"
    THEN it.v["login"].v["uris"].v
    ELSE <<>>

\* the items of an export
ItemsOf(data) ==
    IF "items" \in DOMAIN data.v /\ data.v["items"].k = "arr" THEN data.v["items"].v ELSE <<>>

\* the URI entries of the items, in file order
RECURSIVE EntriesOf(_)
EntriesOf(items) ==
    IF items = <<>> THEN <<>> ELSE UrisOf(items[1]) \o EntriesOf(Tail(items))

\* the string an entry holds under "uri", or the empty string
RawOf(u) ==
    IF u.k = "obj" /\ "uri" \in DOMAIN u.v /\ u.v["uri"].k = "str" THEN u.v["uri"].v ELSE <<>>

\* the normalized domain of every URI entry, in file order
DomainsInFileOrder(data) ==
    LET entries == EntriesOf(ItemsOf(data))
    IN  [i \in 1..Len(entries) |-> NormalizeStr(RawOf(entries[i]))]

\* no entry of the export has a value of the wrong type: every item is an
\* object; a login is an object or null; a URI list is a list or null; a URI
\* entry is an object or null; a value under "uri" is a string or null
WellTyped(data) ==
    /\ data.k = "obj"
    /\ "items" \in DOMAIN data.v => data.v["items"].k = "arr"
    /\ \A i \in 1..Len(ItemsOf(data)) :
          LET it == ItemsOf(data)[i]
          IN  /\ it.k = "obj"
              /\ "login" \in DOMAIN it.v =>
                     /\ it.v["login"].k \in {"obj", "null"}
                     /\ (it.v["login"].k = "obj" /\ "uris" \in DOMAIN it.v["login"].v) =>
                            it.v["login"].v["uris"].k \in {"arr", "null"}
              /\ \A j \in 1..Len(UrisOf(it)) :
                    LET u == UrisOf(it)[j]
                    IN  /\ u.k \in {"obj", "null"}
                        /\ (u.k = "obj" /\ "uri" \in DOMAIN u.v) =>
                               u.v["uri"].k \in {"str", "null"}

FirstIndex(q, x) == CHOOSE i \in 1..Len(q) : q[i] = x /\ \A j \in 1..(i - 1) : q[j] # x

C7_MalformedEntriesSkipped == xstage = "done" => ordered.k = "list"


=============================================================================
